---- MODULE Spec2Model ----
(***************************************************************************)
(* X-brain frontend: the GraphProvider context, the Dashboard with its     *)
(* four tabs (GraphManager, DocumentLoader, ChatInterface,                 *)
(* GraphVisualization) and the requests they keep in flight against the    *)
(* backend reached through ApiService / apiService.                        *)
(*                                                                         *)
(* A Graph object is modelled by its graph_id (1, 2, ...), null by Null.   *)
(* Every await is a point where other handlers run: a request is put in    *)
(* net by the handler that issues it, together with the values the         *)
(* handler's closure has captured, and the rest of the handler (try /      *)
(* catch / finally) runs in the action that delivers the response.         *)
(* React state of an unmounted component is gone: its setters do nothing   *)
(* (live = FALSE), but the rest of the continuation still runs.            *)
(***************************************************************************)
EXTENDS Integers, Sequences, FiniteSets, TLC

\* ------------------------------------------------------------- bounds
MaxGraphId == 2      \* graph ids the backend hands out: 1..MaxGraphId
MaxInFlight == 2     \* requests in flight at once
MaxMessages == 2     \* chat messages kept in ChatInterface.messages
MaxDocs == 2         \* documents kept in DocumentLoader.documents

\* ------------------------------------------------------------- values
Null == 0
NoError == "null"
NoSession == <<0, 0>>
NoData == [gid |-> 0, ts |-> <<>>]

GraphIds == 1..MaxGraphId

RECURSIVE Filter(_, _)
\* Array.prototype.filter(g => g.graph_id !== graphId)
Filter(s, x) ==
  IF s = <<>> THEN <<>>
  ELSE IF Head(s) = x THEN Filter(Tail(s), x)
       ELSE <<Head(s)>> \o Filter(Tail(s), x)

Range(s) == {s[i] : i \in 1..Len(s)}

RemoveAt(s, i) == SubSeq(s, 1, i - 1) \o SubSeq(s, i + 1, Len(s))

\* String.prototype.trim on the strings the model types into a field:
\* "" and " " are blank, everything else keeps a non-blank character.
Trim(str) == IF str = " " THEN "" ELSE str

\* ------------------------------------------------------------- state
VARIABLES
  srvGraphs,      \* backend: the graphs it stores, in creation order
  srvNext,        \* backend: the next graph_id it hands out
  graphs,         \* GraphProvider.graphs
  selectedGraph,  \* GraphProvider.selectedGraph (Null or a graph_id)
  loading,        \* GraphProvider.loading
  error,          \* GraphProvider.error
  activeTab,      \* Dashboard.activeTab
  manager,        \* GraphManager state
  chat,           \* ChatInterface state
  docs,           \* DocumentLoader state
  viz,            \* GraphVisualization state
  net,            \* requests in flight, in the order they were issued
  ev,             \* the step just taken (what ran, what it issued)
  app             \* state of the App of App.tsx (its own selectedGraph,
                  \* graphs and loading), used when that App is the root

vars == <<srvGraphs, srvNext, graphs, selectedGraph, loading, error,
          activeTab, manager, chat, docs, viz, net, ev, app>>

\* A request in flight with what the issuing closure captured.
\*   gid   the graph_id argument        sel   captured selectedGraph
\*   cap   captured graphs              sid   captured sessionId
\*   files the files still to upload    doc   the document id argument
\*   mode  captured viewMode            live  the issuing component instance
\*                                            is still mounted
\*   overtaken  a request of the same operation issued later has already
\*              been answered successfully (kept for the record only)
Req(op, gid) ==
  [op |-> op, gid |-> gid, sel |-> Null, cap |-> <<>>, sid |-> NoSession,
   files |-> <<>>, doc |-> 0, mode |-> "graph", live |-> TRUE,
   overtaken |-> FALSE]

NoReq == Req("none", 0)

\* The tab whose component owns the continuation of a request.
Owner(r) ==
  CASE r.op \in {"create", "delete"} -> 0
    [] r.op \in {"upload", "docs", "docdel"} -> 1
    [] r.op = "chat" -> 2
    [] r.op = "viz" -> 3
    [] OTHER -> 4

\* What a step did: the handler or continuation that ran (op), whether a user
\* action started it, the request whose response it handled (req), whether
\* that succeeded (ok) and with what payload (res), the requests it issued
\* (sent), the documents it passed to onDocumentUploaded (cb) and the
\* selectedGraph it started from (was).
Event(op, user, ok, req, sent) ==
  [op |-> op, user |-> user, ok |-> ok, req |-> req, sent |-> sent,
   res |-> <<>>, cb |-> <<>>, was |-> Null]

ManagerInit ==
  [createDialogOpen |-> FALSE, newGraphName |-> "",
   newGraphDescription |-> "", creating |-> FALSE]

AppInit == [selectedGraph |-> Null, graphs |-> <<>>, loading |-> TRUE]

ChatInit ==
  [messages |-> <<>>, input |-> "", isLoading |-> FALSE, error |-> NoError,
   sessionId |-> NoSession]

\* uploadingFiles is the size of the set; metadata is the set of <<key,
\* value>> pairs typed in the upload dialog (it is not passed to
\* uploadDocument).
DocsInit ==
  [documents |-> <<>>, uploadingFiles |-> 0, error |-> NoError,
   success |-> NoError, uploadDialog |-> FALSE, selectedFiles |-> <<>>,
   metadata |-> {}]

VizInit ==
  [data |-> NoData, loading |-> FALSE, error |-> NoError,
   viewMode |-> "graph", timeRange |-> <<0, 100>>, isPlaying |-> FALSE,
   currentTime |-> 0, settingsOpen |-> FALSE]

\* GraphProvider's mount effect has issued its listGraphs request; the
\* Dashboard renders its skeleton while loading.
Init ==
  /\ srvGraphs = <<1>>
  /\ srvNext = Len(srvGraphs) + 1
  /\ graphs = <<>>
  /\ selectedGraph = Null
  /\ loading = TRUE
  /\ error = NoError
  /\ activeTab = 0
  /\ manager = ManagerInit
  /\ chat = ChatInit
  /\ docs = DocsInit
  /\ viz = VizInit
  /\ net = <<Req("load", 0)>>
  /\ ev = Event("init", FALSE, TRUE, NoReq, net)
  /\ app = AppInit

\* ------------------------------------------------------------ rendering
\* Dashboard renders a skeleton while loading, the GraphManager on tab 0 and
\* the component of tabs 1..3 only while a graph is selected.
Mounted(k, s, l, tab) == ~l /\ tab = k /\ (k = 0 \/ s # Null)

UsedSessions(c, n) ==
  {c.sessionId} \cup {c.messages[i].sid : i \in 1..Len(c.messages)}
    \cup {n[i].sid : i \in {j \in 1..Len(n) : n[j].op = "chat"}}

\* `session_${graph_id}_${Date.now()}`: a session id not in use.
FreshSession(gid, c, n) ==
  LET used == UsedSessions(c, n)
      k == CHOOSE x \in 1..(Cardinality(used) + 1) :
             /\ <<gid, x>> \notin used
             /\ \A y \in 1..(x - 1) : <<gid, y>> \in used
  IN <<gid, k>>

\* ChatInterface's effect on [selectedGraph].
SessionEffect(c, s, n) ==
  [c EXCEPT !.sessionId = FreshSession(s, c, n), !.messages = <<>>,
            !.error = NoError]

\* The first lines of loadVisualizationData, up to its await.
VizLoadStart(v) == [v EXCEPT !.loading = TRUE, !.error = NoError]

VizRequest(v, s) == [Req("viz", s) EXCEPT !.mode = v.viewMode]

\* After its await a document-list, document-delete or visualization request
\* only sets state of its own component (and logs): once that instance is
\* unmounted its response changes nothing, and the request is dropped from
\* net.  An upload goes on with the next file, a create still updates the
\* provider and a chat request stays pending at the backend next to those of
\* a later ChatInterface instance; they stay, with live = FALSE.
Inert(r) == r.op \in {"docs", "docdel", "viz"}

Orphan(n, tabs) ==
  [i \in 1..Len(n) |->
     IF Owner(n[i]) \in tabs /\ n[i].op # "delete"
     THEN [n[i] EXCEPT !.live = FALSE] ELSE n[i]]

\* The state after a handler or continuation has run and React has
\* re-rendered: g, s, l, e, tab, m, c, d, v and n are the values the handler
\* left, sent the requests it issued.  Components that are no longer rendered
\* lose their state, components that appear start from their initial state,
\* and the effects keyed on selectedGraph run for the component in view.
Commit(e0, g, s, l, e, tab, m, c, d, v, n) ==
  LET was(k) == Mounted(k, selectedGraph, loading, activeTab)
      is(k) == Mounted(k, s, l, tab)
      run(k) == is(k) /\ (~was(k) \/ s # selectedGraph)
      gone(r) == was(Owner(r)) /\ ~is(Owner(r))
      n1 == Orphan(SelectSeq(n, LAMBDA r : ~(gone(r) /\ Inert(r))),
                   {k \in 0..3 : was(k) /\ ~is(k)})
      c0 == IF was(2) THEN c ELSE ChatInit
      d0 == IF was(1) THEN d ELSE DocsInit
      v0 == IF was(3) THEN v ELSE VizInit
      eff == IF run(1) THEN <<Req("docs", s)>>
             ELSE IF run(3) THEN <<VizRequest(v0, s)>>
             ELSE <<>>
  IN /\ Len(n1) + Len(eff) <= MaxInFlight
     /\ graphs' = g
     /\ selectedGraph' = s
     /\ loading' = l
     /\ error' = e
     /\ activeTab' = tab
     /\ manager' = IF is(0) /\ was(0) THEN m ELSE ManagerInit
     /\ chat' = IF ~is(2) THEN ChatInit
                ELSE IF run(2) THEN SessionEffect(c0, s, n1) ELSE c0
     /\ docs' = IF is(1) THEN d0 ELSE DocsInit
     /\ viz' = IF ~is(3) THEN VizInit
               ELSE IF run(3) THEN VizLoadStart(v0) ELSE v0
     /\ net' = n1 \o eff
     /\ ev' = [e0 EXCEPT !.sent = e0.sent \o eff, !.was = selectedGraph]
     /\ UNCHANGED app

\* A handler of the component on tab k that only changes that component.
Local(e0, m, c, d, v, n) ==
  Commit(e0, graphs, selectedGraph, loading, error, activeTab, m, c, d, v, n)

\* A step of the provider that leaves the components' own state alone.
Provider(e0, g, s, l, e, n) ==
  Commit(e0, g, s, l, e, activeTab, manager, chat, docs, viz, n)

\* -------------------------------------------------------------- backend
\* The backend handles a request at the moment its response is delivered; a
\* request that fails (backend error, timeout, connection lost) leaves the
\* backend unchanged.  Responses are delivered in any order.
CanDeliver(i, op) == i \in 1..Len(net) /\ net[i].op = op

\* net once the response of request i has been handled: when it succeeded,
\* the requests of the same operation issued before it are overtaken.
Answered(n, i, ok) ==
  RemoveAt([j \in 1..Len(n) |->
              IF ok /\ j < i /\ n[j].op = n[i].op
              THEN [n[j] EXCEPT !.overtaken = TRUE] ELSE n[j]], i)

\* -------------------------------------------------------- GraphProvider
\* The mount effect's loadGraphs, from its await on.
LoadGraphsDone(i, ok) ==
  /\ CanDeliver(i, "load")
  /\ UNCHANGED <<srvGraphs, srvNext>>
  /\ Provider(Event("load", FALSE, ok, net[i], <<>>),
              IF ok THEN srvGraphs ELSE graphs,
              selectedGraph,
              FALSE,
              IF ok THEN error ELSE "Failed to load graphs",
              RemoveAt(net, i))

\* refreshGraphs up to its await; the closure captures selectedGraph.
RefreshGraphs ==
  /\ UNCHANGED <<srvGraphs, srvNext>>
  /\ LET r == [Req("refresh", 0) EXCEPT !.sel = selectedGraph] IN
       Provider(Event("refreshGraphs", TRUE, TRUE, NoReq, <<r>>),
                graphs, selectedGraph, TRUE, NoError, Append(net, r))

\* refreshGraphs from its await on.
RefreshGraphsDone(i, ok) ==
  /\ CanDeliver(i, "refresh")
  /\ UNCHANGED <<srvGraphs, srvNext>>
  /\ LET r == net[i] IN
       Provider(Event("refresh", FALSE, ok, r, <<>>),
                IF ok THEN srvGraphs ELSE graphs,
                IF ok /\ Len(srvGraphs) > 0 /\ r.sel = Null
                  THEN srvGraphs[1] ELSE selectedGraph,
                FALSE,
                IF ok THEN error ELSE "Failed to load graphs",
                RemoveAt(net, i))

\* selectGraph; the event records the id it was called with.
SelectGraph(graphId) ==
  /\ UNCHANGED <<srvGraphs, srvNext>>
  /\ Provider(Event("selectGraph", TRUE, TRUE,
                    [NoReq EXCEPT !.gid = graphId], <<>>),
              graphs,
              IF graphId \in Range(graphs) THEN graphId ELSE selectedGraph,
              loading, error, net)

\* A createGraph that appends the new graph but leaves the selection alone.
CreateGraphDoneNoSelect(i, ok) ==
  /\ CanDeliver(i, "create")
  /\ srvGraphs' = IF ok THEN Append(srvGraphs, srvNext) ELSE srvGraphs
  /\ srvNext' = IF ok THEN srvNext + 1 ELSE srvNext
  /\ LET r == net[i]
         m == IF ~r.live THEN manager
              ELSE IF ok THEN [manager EXCEPT !.createDialogOpen = FALSE,
                                              !.newGraphName = "",
                                              !.newGraphDescription = "",
                                              !.creating = FALSE]
              ELSE [manager EXCEPT !.creating = FALSE]
     IN Commit([Event("create", FALSE, ok, r, <<>>) EXCEPT
                  !.res = IF ok THEN <<srvNext>> ELSE <<>>],
               IF ok THEN Append(graphs, srvNext) ELSE graphs,
               selectedGraph,
               loading,
               IF ok THEN error ELSE "Failed to create graph",
               activeTab, m, chat, docs, viz, RemoveAt(net, i))

\* A handleCreateGraph whose cleanup runs on every path: the dialog is
\* closed and the fields are reset after a failure too.
CreateGraphDoneAlwaysResets(i, ok) ==
  /\ CanDeliver(i, "create")
  /\ srvGraphs' = IF ok THEN Append(srvGraphs, srvNext) ELSE srvGraphs
  /\ srvNext' = IF ok THEN srvNext + 1 ELSE srvNext
  /\ LET r == net[i]
         m == IF ~r.live THEN manager
              ELSE [manager EXCEPT !.createDialogOpen = FALSE,
                                   !.newGraphName = "",
                                   !.newGraphDescription = "",
                                   !.creating = FALSE]
     IN Commit([Event("create", FALSE, ok, r, <<>>) EXCEPT
                  !.res = IF ok THEN <<srvNext>> ELSE <<>>],
               IF ok THEN Append(graphs, srvNext) ELSE graphs,
               IF ok THEN srvNext ELSE selectedGraph,
               loading,
               IF ok THEN error ELSE "Failed to create graph",
               activeTab, m, chat, docs, viz, RemoveAt(net, i))

\* createGraph from its await on, then the rest of
\* GraphManager.handleCreateGraph when that instance is still mounted.
CreateGraphDone(i, ok) ==
  /\ CanDeliver(i, "create")
  /\ srvGraphs' = IF ok THEN Append(srvGraphs, srvNext) ELSE srvGraphs
  /\ srvNext' = IF ok THEN srvNext + 1 ELSE srvNext
  /\ LET r == net[i]
         newGraph == srvNext
         m == IF ~r.live THEN manager
              ELSE IF ok THEN [manager EXCEPT !.createDialogOpen = FALSE,
                                              !.newGraphName = "",
                                              !.newGraphDescription = "",
                                              !.creating = FALSE]
              ELSE [manager EXCEPT !.creating = FALSE]
     IN Commit([Event("create", FALSE, ok, r, <<>>) EXCEPT
                  !.res = IF ok THEN <<newGraph>> ELSE <<>>],
               IF ok THEN Append(graphs, newGraph) ELSE graphs,
               IF ok THEN newGraph ELSE selectedGraph,
               loading,
               IF ok THEN error ELSE "Failed to create graph",
               activeTab, m, chat, docs, viz, RemoveAt(net, i))

\* A deleteGraph that removes the graph from the list before the request is
\* answered, so that a failed deletion has already changed graphs.
DeleteGraphDoneOptimistic(i, ok) ==
  /\ CanDeliver(i, "delete")
  /\ ok => net[i].gid \in Range(srvGraphs)
  /\ srvGraphs' = IF ok THEN Filter(srvGraphs, net[i].gid) ELSE srvGraphs
  /\ UNCHANGED srvNext
  /\ LET r == net[i]
         remainingGraphs == Filter(r.cap, r.gid)
     IN Provider(Event("delete", FALSE, ok, r, <<>>),
                 Filter(graphs, r.gid),
                 IF ok /\ r.sel = r.gid
                   THEN (IF Len(remainingGraphs) > 0
                           THEN remainingGraphs[1] ELSE Null)
                   ELSE selectedGraph,
                 loading,
                 IF ok THEN error ELSE "Failed to delete graph",
                 RemoveAt(net, i))

\* deleteGraph from its await on; selectedGraph and graphs are the values the
\* closure captured when deleteGraph was called.
DeleteGraphDone(i, ok) ==
  /\ CanDeliver(i, "delete")
  /\ ok => net[i].gid \in Range(srvGraphs)
  /\ srvGraphs' = IF ok THEN Filter(srvGraphs, net[i].gid) ELSE srvGraphs
  /\ UNCHANGED srvNext
  /\ LET r == net[i]
         remainingGraphs == Filter(r.cap, r.gid)
     IN Provider(Event("delete", FALSE, ok, r, <<>>),
                 IF ok THEN Filter(graphs, r.gid) ELSE graphs,
                 IF ok /\ r.sel = r.gid
                   THEN (IF Len(remainingGraphs) > 0
                           THEN remainingGraphs[1] ELSE Null)
                   ELSE selectedGraph,
                 loading,
                 IF ok THEN error ELSE "Failed to delete graph",
                 RemoveAt(net, i))

\* ------------------------------------------------------------ Dashboard
\* handleTabChange; tabs 1..3 are disabled while no graph is selected.  The
\* "Create Your First Graph" button is setActiveTab(0).
HandleTabChange(newValue) ==
  /\ ~loading
  /\ newValue \in 0..3
  /\ newValue # 0 => selectedGraph # Null
  /\ UNCHANGED <<srvGraphs, srvNext>>
  /\ newValue # activeTab
  /\ Commit(Event("ui", TRUE, TRUE, NoReq, <<>>),
            graphs, selectedGraph, loading, error, newValue,
            manager, chat, docs, viz, net)

\* --------------------------------------------------------- GraphManager
OnManager == Mounted(0, selectedGraph, loading, activeTab)

ManagerStep(name, m, n, sent) ==
  /\ OnManager
  /\ UNCHANGED <<srvGraphs, srvNext>>
  /\ Local(Event(IF sent = <<>> THEN "ui" ELSE name, TRUE, TRUE, NoReq, sent),
           m, chat, docs, viz, n)

OpenCreateDialog ==
  /\ ~manager.createDialogOpen
  /\ ManagerStep("openCreate", [manager EXCEPT !.createDialogOpen = TRUE],
              net, <<>>)

CloseCreateDialog ==
  /\ manager.createDialogOpen
  /\ ManagerStep("closeCreate", [manager EXCEPT !.createDialogOpen = FALSE],
                 net, <<>>)

SetNewGraphName(v) ==
  /\ manager.createDialogOpen
  /\ v # manager.newGraphName
  /\ ManagerStep("setName", [manager EXCEPT !.newGraphName = v], net, <<>>)

SetNewGraphDescription(v) ==
  /\ manager.createDialogOpen
  /\ v # manager.newGraphDescription
  /\ ManagerStep("setDescription",
                 [manager EXCEPT !.newGraphDescription = v], net, <<>>)

\* Creates the backend can still number (MaxGraphId bounds the ids).
CreatesLeft ==
  MaxGraphId - (srvNext - 1)
    - Cardinality({i \in 1..Len(net) : net[i].op = "create"})

\* handleCreateGraph up to its await.  The Create button is disabled while
\* the name is blank or creating is set.  The closure holds the
\* onGraphCreated prop of this render and, when that is App.tsx's
\* handleGraphCreated, the selectedGraph of App that its loadGraphs reads.
HandleCreateGraph ==
  /\ manager.createDialogOpen
  /\ ~manager.creating
  /\ Trim(manager.newGraphName) # ""
  /\ CreatesLeft > 0
  /\ LET r == [Req("create", 0) EXCEPT !.sel = app.selectedGraph] IN
       ManagerStep("handleCreateGraph", [manager EXCEPT !.creating = TRUE],
                   Append(net, r), <<r>>)

\* handleDeleteGraph with the confirm accepted, up to deleteGraph's await.
HandleDeleteGraph(graphId) ==
  /\ graphId \in Range(graphs)
  /\ LET r == [Req("delete", graphId) EXCEPT !.sel = selectedGraph,
                                             !.cap = graphs] IN
       ManagerStep("handleDeleteGraph", manager, Append(net, r), <<r>>)

Names == {"", " ", "kg"}
Descriptions == {"", "notes"}

GraphManagerNext ==
  \/ OpenCreateDialog
  \/ CloseCreateDialog
  \/ \E v \in Names : SetNewGraphName(v)
  \/ \E v \in Descriptions : SetNewGraphDescription(v)
  \/ HandleCreateGraph
  \/ \E g \in GraphIds : HandleDeleteGraph(g)

\* -------------------------------------------------------- ChatInterface
OnChat == Mounted(2, selectedGraph, loading, activeTab)

ChatStep(name, c, n, sent) ==
  /\ OnChat
  /\ UNCHANGED <<srvGraphs, srvNext>>
  /\ Local(Event(name, TRUE, TRUE, NoReq, sent), manager, c, docs, viz, n)

Inputs == {"", " ", "why"}

\* The text field (disabled while isLoading) and the suggestion chips
\* (rendered while messages is empty).
SetInput(v) ==
  /\ v # chat.input
  /\ \/ ~chat.isLoading
     \/ Len(chat.messages) = 0 /\ v = "why"
  /\ ChatStep("ui", [chat EXCEPT !.input = v], net, <<>>)

\* handleSendMessage up to its await; Enter in the text field calls it with
\* any input, the Send button is disabled while the input is blank.
HandleSendMessage ==
  /\ ~chat.isLoading
  /\ Len(chat.messages) + 2 <= MaxMessages
  /\ IF Trim(chat.input) = "" \/ selectedGraph = Null \/ chat.isLoading
       THEN ChatStep("handleSendMessage", chat, net, <<>>)
       ELSE LET userMessage == [role |-> "user", sid |-> chat.sessionId]
                r == [Req("chat", selectedGraph) EXCEPT
                        !.sid = chat.sessionId]
            IN ChatStep("handleSendMessage",
                        [chat EXCEPT !.messages = Append(@, userMessage),
                                     !.input = "",
                                     !.isLoading = TRUE,
                                     !.error = NoError],
                        Append(net, r), <<r>>)

\* A handleSendMessage that sends the request again when it has failed.
SendMessageDoneRetries(i, ok) ==
  /\ CanDeliver(i, "chat")
  /\ UNCHANGED <<srvGraphs, srvNext>>
  /\ LET r == net[i]
         assistantMessage == [role |-> "assistant", sid |-> r.sid]
         c == IF ~r.live THEN chat
              ELSE IF ok THEN [chat EXCEPT !.messages =
                                             Append(@, assistantMessage),
                                           !.isLoading = FALSE]
              ELSE [chat EXCEPT !.error = "Network Error"]
         again == IF ok THEN <<>> ELSE <<r>>
     IN Local(Event("chat", FALSE, ok, r, again), manager, c, docs, viz,
              RemoveAt(net, i) \o again)

\* handleSendMessage from its await on.
SendMessageDone(i, ok) ==
  /\ CanDeliver(i, "chat")
  /\ UNCHANGED <<srvGraphs, srvNext>>
  /\ LET r == net[i]
         assistantMessage == [role |-> "assistant", sid |-> r.sid]
         c == IF ~r.live THEN chat
              ELSE IF ok THEN [chat EXCEPT !.messages =
                                             Append(@, assistantMessage),
                                           !.isLoading = FALSE]
              ELSE [chat EXCEPT !.error = "Network Error",
                                !.isLoading = FALSE]
     IN Local(Event("chat", FALSE, ok, r, <<>>), manager, c, docs, viz,
              RemoveAt(net, i))

ClearChat ==
  ChatStep("clearChat",
           [chat EXCEPT !.messages = <<>>,
                        !.sessionId = FreshSession(selectedGraph, chat, net),
                        !.error = NoError],
           net, <<>>)

DismissChatError ==
  /\ chat.error # NoError
  /\ ChatStep("ui", [chat EXCEPT !.error = NoError], net, <<>>)

ChatNext ==
  \/ \E v \in Inputs : SetInput(v)
  \/ HandleSendMessage
  \/ ClearChat
  \/ DismissChatError

\* ------------------------------------------------------- DocumentLoader
OnDocs == Mounted(1, selectedGraph, loading, activeTab)

DocsStep(name, d, n, sent) ==
  /\ OnDocs
  /\ UNCHANGED <<srvGraphs, srvNext>>
  /\ Local(Event(name, TRUE, TRUE, NoReq, sent), manager, chat, d, viz, n)

FileLists == {<<"a">>, <<"a", "b">>}

OnDrop(acceptedFiles) ==
  DocsStep("onDrop",
           [docs EXCEPT !.selectedFiles = acceptedFiles,
                        !.uploadDialog = TRUE,
                        !.error = NoError,
                        !.success = NoError],
           net, <<>>)

CloseUploadDialog ==
  /\ docs.uploadDialog
  /\ DocsStep("ui", [docs EXCEPT !.uploadDialog = FALSE], net, <<>>)

\* The Tags and Description fields of the upload dialog.
MetadataKeys == {"tags"}
MetadataValues == {"draft"}

SetMetadata(key, value) ==
  /\ docs.uploadDialog
  /\ <<key, value>> \notin docs.metadata
  /\ DocsStep("ui",
              [docs EXCEPT !.metadata =
                 {p \in @ : p[1] # key} \cup {<<key, value>>}],
              net, <<>>)

UploadRequest(files, gid) == [Req("upload", gid) EXCEPT !.files = files]

\* Files of upload batches that have not been answered yet.
FilesInFlight ==
  LET ups == {i \in 1..Len(net) : net[i].op = "upload"}
      RECURSIVE Sum(_)
      Sum(S) == IF S = {} THEN 0
                ELSE LET i == CHOOSE x \in S : TRUE
                     IN Len(net[i].files) + Sum(S \ {i})
  IN Sum(ups)

\* handleUpload up to its first await.
HandleUpload ==
  /\ docs.uploadDialog
  /\ Len(docs.documents) + FilesInFlight + Len(docs.selectedFiles) <= MaxDocs
  /\ IF selectedGraph = Null
       THEN DocsStep("handleUpload",
                     [docs EXCEPT !.error = "Please select a graph first"],
                     net, <<>>)
       ELSE IF docs.selectedFiles = <<>>
       THEN DocsStep("handleUpload",
                     [docs EXCEPT !.uploadDialog = FALSE,
                                  !.selectedFiles = <<>>,
                                  !.metadata = {}],
                     net, <<>>)
       ELSE LET r == UploadRequest(docs.selectedFiles, selectedGraph)
            IN DocsStep("handleUpload",
                        [docs EXCEPT !.uploadDialog = FALSE,
                                     !.uploadingFiles = @ + 1],
                        Append(net, r), <<r>>)

\* response.data.document_id: an id no listed document has.
NewDocumentId(documents) ==
  CHOOSE x \in 1..(Len(documents) + 1) :
    /\ x \notin Range(documents)
    /\ \A y \in 1..(x - 1) : y \in Range(documents)

\* A handleUpload whose success message names the last file of the batch
\* instead of the file that was uploaded.
UploadDoneNamesLastFile(i, ok) ==
  /\ CanDeliver(i, "upload")
  /\ UNCHANGED <<srvGraphs, srvNext>>
  /\ LET r == net[i]
         file == r.files[Len(r.files)]
         rest == Tail(r.files)
         document_id == NewDocumentId(docs.documents)
         d1 == IF ok
               THEN [docs EXCEPT !.documents = Append(@, document_id),
                                 !.success = "Successfully uploaded " \o file]
               ELSE [docs EXCEPT !.error = "Failed to upload " \o file]
         d2 == IF rest # <<>> THEN d1
               ELSE [d1 EXCEPT !.uploadingFiles = @ - 1,
                               !.selectedFiles = <<>>,
                               !.metadata = {}]
         next == IF rest # <<>> THEN <<[r EXCEPT !.files = rest]>> ELSE <<>>
         e0 == [Event("upload", FALSE, ok, r, next) EXCEPT
                  !.res = IF ok THEN <<document_id>> ELSE <<>>,
                  !.cb = IF ok THEN <<document_id>> ELSE <<>>]
     IN Local(e0, manager, chat, IF r.live THEN d2 ELSE docs, viz,
              RemoveAt(net, i) \o next)

\* A handleUpload whose try block encloses the whole loop: the first failed
\* file ends the batch.
UploadDoneStopsAtFailure(i, ok) ==
  /\ CanDeliver(i, "upload")
  /\ UNCHANGED <<srvGraphs, srvNext>>
  /\ LET r == net[i]
         file == Head(r.files)
         rest == IF ok THEN Tail(r.files) ELSE <<>>
         document_id == NewDocumentId(docs.documents)
         d1 == IF ok
               THEN [docs EXCEPT !.documents = Append(@, document_id),
                                 !.success = "Successfully uploaded " \o file]
               ELSE [docs EXCEPT !.error = "Failed to upload " \o file]
         d2 == IF rest # <<>> THEN d1
               ELSE [d1 EXCEPT !.uploadingFiles = @ - 1,
                               !.selectedFiles = <<>>,
                               !.metadata = {}]
         next == IF rest # <<>> THEN <<[r EXCEPT !.files = rest]>> ELSE <<>>
         e0 == [Event("upload", FALSE, ok, r, next) EXCEPT
                  !.res = IF ok THEN <<document_id>> ELSE <<>>,
                  !.cb = IF ok THEN <<document_id>> ELSE <<>>]
     IN Local(e0, manager, chat, IF r.live THEN d2 ELSE docs, viz,
              RemoveAt(net, i) \o next)

\* handleUpload from an await on: the rest of the loop body for the file
\* that was awaited, then the loop goes on to the next file or ends.
UploadDone(i, ok) ==
  /\ CanDeliver(i, "upload")
  /\ UNCHANGED <<srvGraphs, srvNext>>
  /\ LET r == net[i]
         file == Head(r.files)
         rest == Tail(r.files)
         document_id == NewDocumentId(docs.documents)
         documentData == document_id
         d1 == IF ok
               THEN [docs EXCEPT !.documents = Append(@, documentData),
                                 !.success = "Successfully uploaded " \o file]
               ELSE [docs EXCEPT !.error = "Failed to upload " \o file]
         d2 == IF rest # <<>> THEN d1
               ELSE [d1 EXCEPT !.uploadingFiles = @ - 1,
                               !.selectedFiles = <<>>,
                               !.metadata = {}]
         next == IF rest # <<>> THEN <<[r EXCEPT !.files = rest]>> ELSE <<>>
         e0 == [Event("upload", FALSE, ok, r, next) EXCEPT
                  !.res = IF ok THEN <<document_id>> ELSE <<>>,
                  !.cb = IF ok THEN <<documentData>> ELSE <<>>]
     IN Local(e0, manager, chat, IF r.live THEN d2 ELSE docs, viz,
              RemoveAt(net, i) \o next)

\* handleDeleteDocument up to its await.
HandleDeleteDocument(documentId) ==
  /\ documentId \in Range(docs.documents)
  /\ LET r == [Req("docdel", 0) EXCEPT !.doc = documentId] IN
       DocsStep("handleDeleteDocument", docs, Append(net, r), <<r>>)

\* handleDeleteDocument from its await on.
DeleteDocumentDone(i, ok) ==
  /\ CanDeliver(i, "docdel")
  /\ UNCHANGED <<srvGraphs, srvNext>>
  /\ LET r == net[i]
         d == IF ok
              THEN [docs EXCEPT !.documents = Filter(@, r.doc),
                                !.success = "Document deleted successfully"]
              ELSE [docs EXCEPT !.error = "Failed to delete document"]
     IN Local(Event("docdel", FALSE, ok, r, <<>>), manager, chat, d, viz,
              RemoveAt(net, i))

\* What listDocuments answers for a graph: the documents the backend holds
\* for it, none or one (whose id tells the graph).
StoredDocuments(gid) == {<<>>, <<10 + gid>>}

\* loadDocuments from its await on.
LoadDocumentsDone(i, ok, documentsData) ==
  /\ CanDeliver(i, "docs")
  /\ documentsData \in StoredDocuments(net[i].gid)
  /\ ~ok => documentsData = <<>>
  /\ UNCHANGED <<srvGraphs, srvNext>>
  /\ LET r == net[i]
         d == IF ok THEN [docs EXCEPT !.documents = documentsData]
              ELSE [docs EXCEPT !.error = "Failed to load documents"]
     IN Local([Event("docs", FALSE, ok, r, <<>>) EXCEPT !.res = documentsData],
              manager, chat, d, viz, Answered(net, i, ok))

DismissDocsError ==
  /\ docs.error # NoError
  /\ DocsStep("ui", [docs EXCEPT !.error = NoError], net, <<>>)

DismissDocsSuccess ==
  /\ docs.success # NoError
  /\ DocsStep("ui", [docs EXCEPT !.success = NoError], net, <<>>)

DocsNext ==
  \/ \E f \in FileLists : OnDrop(f)
  \/ CloseUploadDialog
  \/ HandleUpload
  \/ \E x \in 1..(MaxDocs + 10 + MaxGraphId) : HandleDeleteDocument(x)
  \/ DismissDocsError
  \/ DismissDocsSuccess

\* --------------------------------------------------- GraphVisualization
OnViz == Mounted(3, selectedGraph, loading, activeTab)

VizStep(name, v, n, sent) ==
  /\ OnViz
  /\ UNCHANGED <<srvGraphs, srvNext>>
  /\ Local(Event(name, TRUE, TRUE, NoReq, sent), manager, chat, docs, v, n)

\* The view mode toggle: viewMode is a dependency of loadVisualizationData,
\* so the load effect runs again.
SetViewMode(value) ==
  /\ value # viz.viewMode
  /\ LET v == [viz EXCEPT !.viewMode = value]
         r == VizRequest(v, selectedGraph)
     IN VizStep("setViewMode", VizLoadStart(v), Append(net, r), <<r>>)

OpenSettings ==
  /\ ~viz.settingsOpen
  /\ VizStep("ui", [viz EXCEPT !.settingsOpen = TRUE], net, <<>>)

CancelSettings ==
  /\ viz.settingsOpen
  /\ VizStep("ui", [viz EXCEPT !.settingsOpen = FALSE], net, <<>>)

\* The Apply button of the settings dialog calls loadVisualizationData.
ApplySettings ==
  /\ viz.settingsOpen
  /\ LET r == VizRequest(viz, selectedGraph) IN
       VizStep("applySettings",
               VizLoadStart([viz EXCEPT !.settingsOpen = FALSE]),
               Append(net, r), <<r>>)

\* layoutType and minEdgeWeight, set in the settings dialog, are
\* dependencies of loadVisualizationData as well: changing one runs the load
\* effect again.  Their values are not part of the request the model keeps.
SetLayoutType ==
  /\ viz.settingsOpen
  /\ LET r == VizRequest(viz, selectedGraph) IN
       VizStep("setLayoutType", VizLoadStart(viz), Append(net, r), <<r>>)

\* The created_at timestamps of the nodes a visualization response holds.
Timestamps == {<<>>, <<3, 3>>, <<2, 4>>}

Min(s) == CHOOSE x \in Range(s) : \A y \in Range(s) : x <= y
Max(s) == CHOOSE x \in Range(s) : \A y \in Range(s) : x >= y

\* currentTime is kept in hundredths of a time unit, so that one hundredth
\* of a range is a whole number.
Scale == 100

\* A loadVisualizationData that drops the response of a request that a later
\* one has overtaken (latest request wins).
LoadVisualizationDoneLatestWins(i, ok, ts) ==
  /\ CanDeliver(i, "viz")
  /\ ts \in Timestamps
  /\ ~ok => ts = <<>>
  /\ UNCHANGED <<srvGraphs, srvNext>>
  /\ LET r == net[i]
         vizData == [gid |-> r.gid, ts |-> ts]
         v1 == [viz EXCEPT !.data = vizData]
         v2 == IF r.mode = "timeline" /\ Len(ts) > 0
               THEN [v1 EXCEPT !.timeRange = <<Min(ts), Max(ts)>>,
                               !.currentTime = Min(ts) * Scale]
               ELSE v1
         v == IF r.overtaken THEN viz
              ELSE IF ok THEN [v2 EXCEPT !.loading = FALSE]
              ELSE [viz EXCEPT !.error = "Network Error",
                               !.loading = FALSE]
     IN Local([Event("viz", FALSE, ok, r, <<>>) EXCEPT !.res = ts],
              manager, chat, docs, v, Answered(net, i, ok))

\* loadVisualizationData from its await on.
LoadVisualizationDone(i, ok, ts) ==
  /\ CanDeliver(i, "viz")
  /\ ts \in Timestamps
  /\ ~ok => ts = <<>>
  /\ UNCHANGED <<srvGraphs, srvNext>>
  /\ LET r == net[i]
         vizData == [gid |-> r.gid, ts |-> ts]
         v1 == [viz EXCEPT !.data = vizData]
         v2 == IF r.mode = "timeline" /\ Len(ts) > 0
               THEN [v1 EXCEPT !.timeRange = <<Min(ts), Max(ts)>>,
                               !.currentTime = Min(ts) * Scale]
               ELSE v1
         v == IF ok THEN [v2 EXCEPT !.loading = FALSE]
              ELSE [viz EXCEPT !.error = "Network Error",
                               !.loading = FALSE]
     IN Local([Event("viz", FALSE, ok, r, <<>>) EXCEPT !.res = ts],
              manager, chat, docs, v, Answered(net, i, ok))

DismissVizError ==
  /\ viz.error # NoError
  /\ VizStep("ui", [viz EXCEPT !.error = NoError], net, <<>>)

VizNext ==
  \/ \E m \in {"graph", "timeline"} : SetViewMode(m)
  \/ OpenSettings
  \/ CancelSettings
  \/ SetLayoutType
  \/ ApplySettings
  \/ DismissVizError

\* --------------------------------------------------- timeline animation
\* The timeline controls and the slider are rendered in timeline mode only.
\* They change isPlaying and currentTime, which no other handler reads.
Hi(timeRange) == timeRange[2] * Scale
Lo(timeRange) == timeRange[1] * Scale

\* A timer callback that does not advance.
NextTimeStuck(prev, timeRange) == prev

\* prev + (timeRange[1] - timeRange[0]) / 100
NextTime(prev, timeRange) ==
  prev + ((timeRange[2] - timeRange[1]) * Scale) \div 100

TogglePlay ==
  /\ viz.viewMode = "timeline"
  /\ VizStep(IF viz.isPlaying THEN "pause" ELSE "play",
             [viz EXCEPT !.isPlaying = ~@], net, <<>>)

SkipPrevious ==
  /\ viz.viewMode = "timeline"
  /\ viz.currentTime # Lo(viz.timeRange)
  /\ VizStep("seek", [viz EXCEPT !.currentTime = Lo(viz.timeRange)],
             net, <<>>)

SkipNext ==
  /\ viz.viewMode = "timeline"
  /\ viz.currentTime # Hi(viz.timeRange)
  /\ VizStep("seek", [viz EXCEPT !.currentTime = Hi(viz.timeRange)],
             net, <<>>)

\* The slider, between timeRange[0] and timeRange[1] in steps of 1.
SliderChange(value) ==
  /\ viz.viewMode = "timeline"
  /\ value \in viz.timeRange[1]..viz.timeRange[2]
  /\ viz.currentTime # value * Scale
  /\ VizStep("seek", [viz EXCEPT !.currentTime = value * Scale], net, <<>>)

\* The setInterval callback; the interval exists while the component is
\* mounted with isPlaying set in timeline mode.
Tick ==
  /\ OnViz
  /\ viz.isPlaying
  /\ viz.viewMode = "timeline"
  /\ UNCHANGED <<srvGraphs, srvNext>>
  /\ LET next == NextTime(viz.currentTime, viz.timeRange)
         v == IF next >= Hi(viz.timeRange)
              THEN [viz EXCEPT !.isPlaying = FALSE,
                               !.currentTime = Hi(viz.timeRange)]
              ELSE [viz EXCEPT !.currentTime = next]
     IN Local(Event("tick", FALSE, TRUE, NoReq, <<>>),
              manager, chat, docs, v, net)

\* Slider positions the model moves to.
SliderStops == {0, 3, 50}

AnimNext ==
  \/ TogglePlay
  \/ SkipPrevious
  \/ SkipNext
  \/ \E x \in SliderStops : SliderChange(x)

\* ------------------------------------------------------------ responses
VizDone ==
  \E i \in 1..MaxInFlight, ok \in BOOLEAN, ts \in Timestamps :
    LoadVisualizationDone(i, ok, ts)

ComponentDone ==
  \/ \E i \in 1..MaxInFlight, ok \in BOOLEAN :
       \/ SendMessageDone(i, ok)
       \/ UploadDone(i, ok)
       \/ DeleteDocumentDone(i, ok)
       \/ \E p \in UNION {StoredDocuments(g) : g \in GraphIds} :
            LoadDocumentsDone(i, ok, p)
  \/ VizDone

ProviderDone ==
  \E i \in 1..MaxInFlight, ok \in BOOLEAN :
    \/ LoadGraphsDone(i, ok)
    \/ CreateGraphDone(i, ok)
    \/ DeleteGraphDone(i, ok)

\* ------------------------------------------------------- specifications
\* The Dashboard application as its user drives it: no component calls
\* selectGraph or refreshGraphs.
Next ==
  \/ ProviderDone
  \/ ComponentDone
  \/ \E t \in 0..3 : HandleTabChange(t)
  \/ GraphManagerNext
  \/ ChatNext
  \/ DocsNext
  \/ VizNext

Spec == Init /\ [][Next]_vars

\* GraphProvider with a consumer that calls all four functions of the
\* context: the GraphManager tab plus selectGraph and refreshGraphs.
NextProvider ==
  \/ ProviderDone
  \/ \E i \in 1..MaxInFlight, ok \in BOOLEAN : RefreshGraphsDone(i, ok)
  \/ RefreshGraphs
  \/ \E g \in GraphIds : SelectGraph(g)
  \/ GraphManagerNext

SpecProvider == Init /\ [][NextProvider]_vars

\* GraphVisualization alone, from the state in which the Dashboard has just
\* shown it for graph 2 (load, create "kg", tab 3), with the timer running
\* whenever its interval exists.
InitAnim ==
  /\ srvGraphs = <<1, 2>>
  /\ srvNext = 3
  /\ graphs = <<1, 2>>
  /\ selectedGraph = 2
  /\ loading = FALSE
  /\ error = NoError
  /\ activeTab = 3
  /\ manager = ManagerInit
  /\ chat = ChatInit
  /\ docs = DocsInit
  /\ viz = VizLoadStart(VizInit)
  /\ net = <<VizRequest(VizInit, 2)>>
  /\ ev = [Event("ui", TRUE, TRUE, NoReq, <<VizRequest(VizInit, 2)>>)
            EXCEPT !.was = 2]
  /\ app = AppInit

NextAnim ==
  \/ VizDone
  \/ \E m \in {"graph", "timeline"} : SetViewMode(m)
  \/ AnimNext
  \/ Tick

SpecAnim == InitAnim /\ [][NextAnim]_vars /\ WF_vars(Tick)

\* DocumentLoader alone, from the state in which the Dashboard has just
\* shown it for graph 2 (load, create "kg", tab 1), with the metadata fields
\* of the upload dialog in use.
InitDocs ==
  /\ srvGraphs = <<1, 2>>
  /\ srvNext = 3
  /\ graphs = <<1, 2>>
  /\ selectedGraph = 2
  /\ loading = FALSE
  /\ error = NoError
  /\ activeTab = 1
  /\ manager = ManagerInit
  /\ chat = ChatInit
  /\ docs = DocsInit
  /\ viz = VizInit
  /\ net = <<Req("docs", 2)>>
  /\ ev = [Event("ui", TRUE, TRUE, NoReq, <<Req("docs", 2)>>)
            EXCEPT !.was = 2]
  /\ app = AppInit

DocsDone ==
  \E i \in 1..MaxInFlight, ok \in BOOLEAN :
    \/ UploadDone(i, ok)
    \/ DeleteDocumentDone(i, ok)
    \/ \E p \in StoredDocuments(2) : LoadDocumentsDone(i, ok, p)

NextDocs ==
  \/ DocsDone
  \/ DocsNext
  \/ \E k \in MetadataKeys, v \in MetadataValues : SetMetadata(k, v)

SpecDocs == InitDocs /\ [][NextDocs]_vars

\* -------------------------------------------------------------- App.tsx
\* The App of App.tsx as root.  It keeps a selectedGraph, graphs and loading
\* of its own, renders GraphProvider once its first loadGraphs has finished,
\* and passes handleGraphCreated to the GraphManager of route "/".  A
\* request of its loadGraphs carries the selectedGraph of App that the
\* closure captured (sel) and the created graph whose handleGraphCreated
\* issued it (gid, 0 for the mount effect).
InitApp ==
  /\ srvGraphs = <<1>>
  /\ srvNext = Len(srvGraphs) + 1
  /\ graphs = <<>>
  /\ selectedGraph = Null
  /\ loading = TRUE
  /\ error = NoError
  /\ activeTab = 0
  /\ manager = ManagerInit
  /\ chat = ChatInit
  /\ docs = DocsInit
  /\ viz = VizInit
  /\ net = <<Req("appload", 0)>>
  /\ ev = Event("init", FALSE, TRUE, NoReq, net)
  /\ app = AppInit

\* App.loadGraphs from its await on.  The first one to finish clears
\* loading, which renders GraphProvider: its mount effect issues its own
\* loadGraphs.
AppLoadGraphsDone(i, ok) ==
  /\ CanDeliver(i, "appload")
  /\ LET r == net[i]
         mount == IF app.loading THEN <<Req("load", 0)>> ELSE <<>>
     IN /\ app' = [graphs |-> IF ok THEN srvGraphs ELSE app.graphs,
                   selectedGraph |->
                     IF ok /\ Len(srvGraphs) > 0 /\ r.sel = Null
                       THEN srvGraphs[1] ELSE app.selectedGraph,
                   loading |-> FALSE]
        /\ net' = RemoveAt(net, i) \o mount
        /\ ev' = [Event("appload", FALSE, ok, r, mount) EXCEPT
                    !.was = selectedGraph]
  /\ UNCHANGED <<srvGraphs, srvNext, graphs, selectedGraph, loading, error,
                 activeTab, manager, chat, docs, viz>>

\* handleGraphSelected, called by the Sidebar's Select with one of the
\* graphs App passed to it.
HandleGraphSelected(graphId) ==
  /\ ~app.loading
  /\ graphId \in Range(app.graphs)
  /\ graphId # app.selectedGraph
  /\ app' = [app EXCEPT !.selectedGraph = graphId]
  /\ ev' = [Event("handleGraphSelected", TRUE, TRUE,
                  [NoReq EXCEPT !.gid = graphId], <<>>) EXCEPT
              !.was = selectedGraph]
  /\ UNCHANGED <<srvGraphs, srvNext, graphs, selectedGraph, loading, error,
                 activeTab, manager, chat, docs, viz, net>>

\* createGraph from its await on, then the rest of
\* GraphManager.handleCreateGraph with onGraphCreated = handleGraphCreated:
\* loadGraphs() of the captured render, then setSelectedGraph(graphId).
AppCreateGraphDone(i, ok) ==
  /\ CanDeliver(i, "create")
  /\ srvGraphs' = IF ok THEN Append(srvGraphs, srvNext) ELSE srvGraphs
  /\ srvNext' = IF ok THEN srvNext + 1 ELSE srvNext
  /\ LET r == net[i]
         newGraph == srvNext
         reload == IF ok
                   THEN <<[Req("appload", newGraph) EXCEPT !.sel = r.sel]>>
                   ELSE <<>>
     IN /\ graphs' = IF ok THEN Append(graphs, newGraph) ELSE graphs
        /\ selectedGraph' = IF ok THEN newGraph ELSE selectedGraph
        /\ error' = IF ok THEN error ELSE "Failed to create graph"
        /\ manager' = IF ok
                      THEN [manager EXCEPT !.createDialogOpen = FALSE,
                                           !.newGraphName = "",
                                           !.newGraphDescription = "",
                                           !.creating = FALSE]
                      ELSE [manager EXCEPT !.creating = FALSE]
        /\ app' = IF ok THEN [app EXCEPT !.selectedGraph = newGraph] ELSE app
        /\ net' = RemoveAt(net, i) \o reload
        /\ ev' = [Event("create", FALSE, ok, r, reload) EXCEPT
                    !.res = IF ok THEN <<newGraph>> ELSE <<>>,
                    !.cb = IF ok THEN <<newGraph>> ELSE <<>>,
                    !.was = selectedGraph]
  /\ UNCHANGED <<loading, activeTab, chat, docs, viz>>

NextApp ==
  \/ \E i \in 1..MaxInFlight, ok \in BOOLEAN :
       \/ AppLoadGraphsDone(i, ok)
       \/ LoadGraphsDone(i, ok)
       \/ AppCreateGraphDone(i, ok)
       \/ DeleteGraphDone(i, ok)
  \/ \E g \in GraphIds : HandleGraphSelected(g)
  \/ GraphManagerNext

SpecApp == InitApp /\ [][NextApp]_vars

\* --------------------------------------------------------------- claims
Last(s) == s[Len(s)]

\* C1: whenever createGraph completes successfully, the graph the backend
\* returned has been appended to graphs and is the selectedGraph, whatever
\* graph (or none) was selected before.
C1_CreateAppendsAndSelects ==
  [][(ev'.op = "create" /\ ev'.ok) =>
       /\ ev'.res = <<Last(srvGraphs')>>
       /\ graphs' = Append(graphs, Last(srvGraphs'))
       /\ selectedGraph' = Last(srvGraphs')]_vars

\* A create has just succeeded while another graph was selected.
C1_Witness ==
  /\ ev.op = "create"
  /\ ev.ok
  /\ ev.was \in Range(graphs)
  /\ ev.was # selectedGraph
  /\ selectedGraph = Last(graphs)

\* C6: for every file whose upload succeeds, exactly one document, with the
\* returned document_id as its id, is appended to documents, success names
\* that file, and onDocumentUploaded is called once with that document.  The
\* state is that of the DocumentLoader instance that started the upload,
\* while it is mounted.
C6_UploadSuccess ==
  [][(ev'.op = "upload" /\ ev'.ok) =>
       /\ Len(ev'.res) = 1
       /\ ev'.cb = ev'.res
       /\ ev'.req.live =>
            /\ docs'.documents = Append(docs.documents, ev'.res[1])
            /\ docs'.success =
                 "Successfully uploaded " \o Head(ev'.req.files)]_vars

\* The first file of a batch of two has just been uploaded.
C6_Witness ==
  /\ ev.op = "upload"
  /\ ev.ok
  /\ ev.req.live
  /\ ev.req.files = <<"a", "b">>
  /\ docs.success = "Successfully uploaded a"
  /\ docs.documents # <<>>
  /\ ev.cb = <<Last(docs.documents)>>

\* C8: no ordering or cancellation: every successful response of
\* loadVisualizationData and of loadDocuments is applied when it arrives, so
\* data (documents) is the payload of the response that arrived last, also
\* when that request was issued before one answered earlier.
C8_LastArrivalWins ==
  /\ (ev.op = "viz" /\ ev.ok) =>
       viz.data = [gid |-> ev.req.gid, ts |-> ev.res]
  /\ (ev.op = "docs" /\ ev.ok) => docs.documents = ev.res

\* Two visualization requests overlapped, the one issued later was answered
\* first, and data now holds the payload of the one issued first.
C8_Witness ==
  /\ ev.op = "viz"
  /\ ev.ok
  /\ ev.req.overtaken
  /\ ev.res # <<>>
  /\ viz.data.ts = ev.res
  /\ \A i \in 1..Len(net) : net[i].op # "viz"

\* C10: a failed createGraph leaves the create dialog, the name and the
\* description of the GraphManager that called it as they were and sets
\* creating to false; a successful one closes the dialog and resets both
\* fields; a failed chat send sets isLoading of the ChatInterface that sent
\* it to false.
C10_ResubmissionPossible ==
  [][/\ (ev'.op = "create" /\ ev'.req.live /\ ~ev'.ok) =>
          /\ manager'.createDialogOpen = manager.createDialogOpen
          /\ manager'.newGraphName = manager.newGraphName
          /\ manager'.newGraphDescription = manager.newGraphDescription
          /\ ~manager'.creating
     /\ (ev'.op = "create" /\ ev'.req.live /\ ev'.ok) =>
          manager' = ManagerInit
     /\ (ev'.op = "chat" /\ ev'.req.live /\ ~ev'.ok) =>
          /\ ~chat'.isLoading
          /\ chat'.error # NoError]_vars

\* A create has just failed with the dialog open and both fields filled in:
\* the Create button is enabled.
C10_Witness ==
  /\ ev.op = "create"
  /\ ~ev.ok
  /\ ev.req.live
  /\ manager.createDialogOpen
  /\ manager.newGraphName = "kg"
  /\ manager.newGraphDescription = "notes"
  /\ ~manager.creating

\* The animation is running.
Playing == OnViz /\ viz.isPlaying /\ viz.viewMode = "timeline"

\* Since play was pressed only the timer has run: no user input, no response.
Undisturbed == ev.op \in {"play", "tick"}

\* The timer has stopped the animation at the end of the range.
Finished ==
  /\ ev.op = "tick"
  /\ ~viz.isPlaying
  /\ viz.currentTime = Hi(viz.timeRange)

\* C9: once isPlaying is set in timeline mode, and as long as the user does
\* nothing more and no response arrives, every tick advances currentTime by
\* one hundredth of timeRange[1] - timeRange[0] (or to timeRange[1], where it
\* stops), and after finitely many ticks currentTime is timeRange[1] and
\* isPlaying is false; a range of length 0 included.
C9_AnimationTerminates ==
  /\ [][ev'.op = "tick" =>
          IF viz'.isPlaying
          THEN /\ 100 * (viz'.currentTime - viz.currentTime) =
                    Scale * (viz.timeRange[2] - viz.timeRange[1])
               /\ viz'.currentTime < Hi(viz.timeRange)
          ELSE /\ viz'.currentTime = Hi(viz.timeRange)
               /\ 100 * (Hi(viz.timeRange) - viz.currentTime) <=
                    Scale * (viz.timeRange[2] - viz.timeRange[1])]_vars
  /\ (Playing /\ Undisturbed) ~> (Finished \/ ~Undisturbed)

\* The animation has run to the end of a range of positive length.
C9_Witness ==
  /\ Finished
  /\ viz.timeRange = <<2, 4>>
  /\ viz.data.ts = <<2, 4>>

\* The user actions that neither create nor delete a graph.  The Sidebar
\* only displays the graphs, it offers no action.
OtherUserAction ==
  \/ \E t \in 0..3 : HandleTabChange(t)
  \/ OpenCreateDialog
  \/ CloseCreateDialog
  \/ \E v \in Names : SetNewGraphName(v)
  \/ \E v \in Descriptions : SetNewGraphDescription(v)
  \/ ChatNext
  \/ DocsNext
  \/ VizNext

\* C2: the user can switch between graphs: for every graph in graphs that is
\* not the selected one, some user action that neither creates nor deletes a
\* graph makes it the selected one.
C2_CanSwitch ==
  \A g \in Range(graphs) :
    (g # selectedGraph /\ ~loading) =>
      ENABLED (OtherUserAction /\ selectedGraph' = g)

\* No sequence of such actions does it either: selectedGraph changes only
\* when a createGraph or a deleteGraph completes.
SelectionChangesOnlyOnCreateDelete ==
  [][selectedGraph' # selectedGraph => ev'.op \in {"create", "delete"}]_vars

\* C3: at every moment every message in ChatInterface.messages carries the
\* current sessionId, the session of the selected graph, also when the graph
\* changes or clearChat runs while a chat request is in flight.
C3_MessagesInCurrentSession ==
  OnChat =>
    /\ chat.sessionId[1] = selectedGraph
    /\ \A i \in 1..Len(chat.messages) :
         chat.messages[i].sid = chat.sessionId

GraphRequests == {"chat", "upload", "docs", "viz"}

\* C4: no chat, upload, document-list or visualization request is issued
\* while selectedGraph is null, each carries the graph_id of the graph
\* selected when it is issued, and a chat request carries the session id
\* generated for that graph.
C4_RequestsUseSelectedGraph ==
  \A i \in 1..Len(ev.sent) :
    ev.sent[i].op \in GraphRequests =>
      /\ selectedGraph # Null
      /\ ev.sent[i].gid = selectedGraph
      /\ ev.sent[i].op = "chat" =>
           /\ ev.sent[i].sid = chat.sessionId
           /\ ev.sent[i].sid[1] = selectedGraph

NetworkOps ==
  {"load", "refresh", "create", "delete", "upload", "docdel", "docs",
   "chat", "viz"}

Failed == ev.op \in NetworkOps /\ ~ev.ok

\* The error state of the component that owns the failed request is set
\* (GraphProvider for the graph operations), as far as that component
\* instance is still mounted.
OwnerShowsError ==
  CASE ev.op \in {"load", "refresh", "create", "delete"} -> error # NoError
    [] ev.op \in {"upload", "docdel", "docs"} ->
         ev.req.live => docs.error # NoError
    [] ev.op = "chat" -> ev.req.live => chat.error # NoError
    [] ev.op = "viz" -> viz.error # NoError

\* Request s asks again for what request r asked for.
Repeats(s, r) ==
  /\ s.op = r.op
  /\ s.gid = r.gid
  /\ s.doc = r.doc
  /\ s.mode = r.mode
  /\ s.sid = r.sid
  /\ (s.files # <<>> /\ r.files # <<>>) => Head(s.files) = Head(r.files)

\* C5 as stated: when a request fails, the owner's error is non-null once
\* the failure has been handled and no further request for that operation
\* is issued without a new user action, the handling step included.
C5_NoFurtherRequest ==
  Failed =>
    /\ OwnerShowsError
    /\ \A i \in 1..Len(ev.sent) : ev.sent[i].op # ev.req.op

\* C5 amended: when a request fails, the owner's error is non-null once the
\* failure has been handled and the failed request is not repeated; a step
\* that is not a user action issues a request only as the next file of an
\* upload batch, which goes on after a failed file, or as the document-list
\* or visualization load for a newly selected graph.
C5_NoRetry ==
  /\ Failed =>
       /\ OwnerShowsError
       /\ \A i \in 1..Len(ev.sent) : ~Repeats(ev.sent[i], ev.req)
  /\ (~ev.user /\ ev.op # "init") =>
       \A i \in 1..Len(ev.sent) :
         \/ /\ ev.op = "upload"
            /\ ev.sent[i].op = "upload"
            /\ ev.sent[i].files = Tail(ev.req.files)
         \/ /\ ev.sent[i].op \in {"docs", "viz"}
            /\ ev.sent[i].gid = selectedGraph
            /\ ev.was # selectedGraph

\* The upload of the first file of a batch has just failed: the error is
\* shown and the request for the second file has been issued.
C5_Witness ==
  /\ ev.op = "upload"
  /\ ~ev.ok
  /\ ev.req.live
  /\ docs.error = "Failed to upload a"
  /\ Len(ev.sent) = 1
  /\ ev.sent[1].files = <<"b">>

ListGraphsInFlight ==
  \E i \in 1..Len(net) : net[i].op \in {"load", "refresh"}

VizInFlight == \E i \in 1..Len(net) : net[i].op = "viz"

\* C7: loading is true whenever a listGraphs request (mount load or
\* refreshGraphs) is in flight, and GraphVisualization.loading is true
\* whenever a visualization request is in flight, also when requests
\* overlap and one of them has completed.
C7_LoadingPerRequest ==
  /\ ListGraphsInFlight => loading
  /\ VizInFlight => viz.loading

\* ------------------------------------------------------------ deleteGraph
FirstOrNull(s) == IF Len(s) > 0 THEN s[1] ELSE Null

\* The three parts of the deletion rule for a completed deleteGraph(g), with
\* wasSelected saying whether g counted as the selected graph.
DeleteRule(g, wasSelected) ==
  /\ g \notin Range(graphs')
  /\ wasSelected => selectedGraph' = FirstOrNull(graphs')
  /\ ~wasSelected => selectedGraph' = selectedGraph

\* C11: when deleteGraph(g) completes successfully, g is no longer in graphs;
\* if g was the selected graph, selectedGraph becomes the first graph of the
\* remaining list, or null when no graph remains; if g was not the selected
\* graph, selectedGraph is unchanged.  "Was selected" is read either as
\* selected when the deletion completes or as selected when it was called.
C11_DeleteSelection ==
  [][(ev'.op = "delete" /\ ev'.ok) =>
       \/ DeleteRule(ev'.req.gid, selectedGraph = ev'.req.gid)
       \/ DeleteRule(ev'.req.gid, ev'.req.sel = ev'.req.gid)]_vars

\* ------------------------------------------------------------ selection
\* C12: in every reachable state of GraphProvider, selectedGraph is either
\* null or a graph whose graph_id occurs in graphs.
C12_SelectedInGraphs ==
  selectedGraph = Null \/ selectedGraph \in Range(graphs)

\* ------------------------------------------------------------ refreshGraphs
\* C13: refreshGraphs auto-selects the first returned graph only if none is
\* selected: its completion never replaces a non-null selectedGraph.
C13_RefreshKeepsSelection ==
  [][(ev'.op = "refresh" /\ selectedGraph # Null) =>
       selectedGraph' = selectedGraph]_vars

\* ------------------------------------------------------------ failures
\* C14: when createGraph or deleteGraph fails, graphs and selectedGraph are
\* left unchanged and error is set to 'Failed to create graph' resp. 'Failed
\* to delete graph'; the failure reaches the caller, so that the part of
\* handleCreateGraph after its await is skipped (dialog and fields stay as
\* they are) while its finally block clears creating; selectGraph with an id
\* that is not in graphs changes nothing.
C14_FailureFrame ==
  [][/\ (ev'.op \in {"create", "delete"} /\ ~ev'.ok) =>
          /\ graphs' = graphs
          /\ selectedGraph' = selectedGraph
          /\ error' = IF ev'.op = "create" THEN "Failed to create graph"
                                           ELSE "Failed to delete graph"
     /\ (ev'.op = "create" /\ ~ev'.ok /\ ev'.req.live) =>
          manager' = [manager EXCEPT !.creating = FALSE]
     /\ (ev'.op = "selectGraph" /\ ev'.req.gid \notin Range(graphs)) =>
          UNCHANGED <<graphs, selectedGraph, loading, error>>]_vars

\* A deletion of the selected graph has just failed.
C14_Witness ==
  /\ ev.op = "delete"
  /\ ~ev.ok
  /\ ev.req.gid = selectedGraph
  /\ ev.req.gid \in Range(graphs)
  /\ error = "Failed to delete graph"

\* ------------------------------------------------------------ chat requests
ChatInFlight == {i \in 1..Len(net) : net[i].op = "chat"}

\* C15: while ChatInterface is rendered at most one chat request is in
\* flight at any time, and isLoading is true exactly while one is;
\* handleSendMessage appends no message and issues no request when the
\* trimmed input is empty, no graph is selected, or isLoading is true.
C15_OneChatRequest ==
  [][/\ OnChat' =>
          /\ Cardinality(ChatInFlight') <= 1
          /\ chat'.isLoading <=> ChatInFlight' # {}
     /\ (/\ ev'.op = "handleSendMessage"
         /\ \/ Trim(chat.input) = ""
            \/ selectedGraph = Null
            \/ chat.isLoading) =>
          /\ chat'.messages = chat.messages
          /\ ev'.sent = <<>>]_vars

\* ------------------------------------------------------------ upload batch
\* C16: for one confirmed batch, handleUpload uploads the selected files one
\* request at a time in list order and submits each file exactly once: the
\* batch starts with one request for the whole list, and the completion of
\* the request for a file, successful or not, issues exactly one request,
\* for the files after it, or none after the last file; a failed upload sets
\* error; when the batch finishes selectedFiles and metadata are empty.
C16_BatchInOrder ==
  [][/\ (ev'.op = "handleUpload" /\ ev'.sent # <<>>) =>
          ev'.sent = <<UploadRequest(docs.selectedFiles, selectedGraph)>>
     /\ ev'.op = "upload" =>
          LET r == ev'.req
              rest == Tail(r.files)
          IN /\ rest # <<>> => ev'.sent = <<[r EXCEPT !.files = rest]>>
             /\ rest = <<>> => ev'.sent = <<>>
             /\ (r.live /\ ~ev'.ok) =>
                  docs'.error = "Failed to upload " \o Head(r.files)
             /\ (r.live /\ rest = <<>>) =>
                  /\ docs'.selectedFiles = <<>>
                  /\ docs'.metadata = {}]_vars

\* The upload of the first file of a two-file batch has just failed, with
\* metadata typed in, and the second file has been submitted.
C16_Witness ==
  /\ ev.op = "upload"
  /\ ~ev.ok
  /\ ev.req.files = <<"a", "b">>
  /\ ev.sent = <<[ev.req EXCEPT !.files = <<"b">>]>>
  /\ docs.error = "Failed to upload a"
  /\ docs.metadata # {}

\* ------------------------------------------------------------ App.tsx
\* C17: after handleGraphCreated(g) has run and the loadGraphs reload it
\* started has completed, App's selectedGraph is g: the completion of that
\* reload leaves a selection of g in place, whatever was selected before the
\* creation and whatever the reloaded list starts with.
C17_CreatedStaysSelected ==
  [][(/\ ev'.op = "appload"
      /\ ev'.req.gid # 0
      /\ app.selectedGraph = ev'.req.gid) =>
       app'.selectedGraph = ev'.req.gid]_vars

\* C18: the graph selected at App level and the selectedGraph of the
\* GraphProvider that the components read denote the same graph: after
\* every completed user action (a user step with no request left in flight)
\* either both are unset or App's selectedGraph equals GraphProvider's.
C18_SelectionsAgree ==
  (ev.user /\ net = <<>> /\ ~app.loading) => app.selectedGraph = selectedGraph

====
